---- MODULE Spec2Model ----
(***************************************************************************)
(* Search-resolution engine of vleerapp/api.                               *)
(*                                                                         *)
(* Two SearchClient implementations are modelled side by side:             *)
(*   "manticore"  src/src/manticore.rs  (index returns ids only, a         *)
(*                separate COUNT query runs concurrently, batch hydration) *)
(*   "es"         src/src/search.rs     (one search request returns hits   *)
(*                and total, one relational query per hit)                 *)
(* The relational store and the index are written by other programs (the   *)
(* sync examples and whoever edits the catalog); the engine only reads.    *)
(***************************************************************************)
EXTENDS Integers, Sequences, FiniteSets, TLC

\* ------------------------------------------------------------------ bounds
\* Writes to the two stores in one run: documents the sync pipeline sends to
\* the index and changes other programs make to the relational store.
MaxWrites == 2

\* Characters of a text handed to the query builder.
MaxLen == 3

\* --------------------------------------------------------------- constants
None == "None"      \* Option::None
NULL == "NULL"      \* SQL NULL

\* The catalog ids of the model. An id names one entity of one table: the
\* sync stores every document of the three tables under its id in one index.
IdSeq == <<1, 2, 3, 4, 5, 6>>
Ids == {IdSeq[k] : k \in DOMAIN IdSeq}
TableIds(table) ==
    CASE table = "song" -> {1, 2}
      [] table = "artist" -> {3, 4}
      [] table = "album" -> {5, 6}
Backends == {"manticore", "es"}
ItemTypes == {"song", "artist", "album"}
ReqTypes == ItemTypes \cup {None, "podcast"}
Queries == {"yesterday", "tomorrow"}
Limits == {1, 2}
Offsets == {0, 1}
IsrcFilters == {None, "US2"}
UpcFilters == {None, "0002"}
ArtistFilters == {None, "beat", "SOMEONE"}
AlbumFilters == {None, "hel"}

\* str::to_lowercase on the strings of the model
to_lowercase(s) ==
    CASE s = "US2" -> "us2"
      [] s = "GB1" -> "gb1"
      [] OTHER -> s

\* ------------------------------------------------------------- strings
\* The characters of the strings of the model.
Chars(s) ==
    CASE s = "" -> <<>>
      [] s = "Yesterday" -> <<"Y", "e", "s", "t", "e", "r", "d", "a", "y">>
      [] s = "Yesterday Tomorrow" ->
            <<"Y", "e", "s", "t", "e", "r", "d", "a", "y", " ",
              "T", "o", "m", "o", "r", "r", "o", "w">>
      [] s = "yesterday" -> <<"y", "e", "s", "t", "e", "r", "d", "a", "y">>
      [] s = "tomorrow" -> <<"t", "o", "m", "o", "r", "r", "o", "w">>
      [] s = "The Beatles" ->
            <<"T", "h", "e", " ", "B", "e", "a", "t", "l", "e", "s">>
      [] s = "Someone" -> <<"S", "o", "m", "e", "o", "n", "e">>
      [] s = "beat" -> <<"b", "e", "a", "t">>
      [] s = "SOMEONE" -> <<"S", "O", "M", "E", "O", "N", "E">>
      [] s = "Help" -> <<"H", "e", "l", "p">>
      [] s = "Abbey Road" -> <<"A", "b", "b", "e", "y", " ", "R", "o", "a", "d">>
      [] s = "hel" -> <<"h", "e", "l">>
      [] s = "0001" -> <<"0", "0", "0", "1">>
      [] s = "0002" -> <<"0", "0", "0", "2">>
      [] s = "000" -> <<"0", "0", "0">>

\* char::to_lowercase on the characters of the model
lower(c) ==
    CASE c = "A" -> "a" [] c = "B" -> "b" [] c = "E" -> "e" [] c = "H" -> "h"
      [] c = "M" -> "m" [] c = "N" -> "n" [] c = "O" -> "o" [] c = "R" -> "r"
      [] c = "S" -> "s" [] c = "T" -> "t" [] c = "Y" -> "y"
      [] OTHER -> c

\* str::to_lowercase, on characters
lowercase(cs) == [k \in DOMAIN cs |-> lower(cs[k])]

\* str::contains, on characters
contains(cs, sub) ==
    \E k \in 0..(Len(cs) - Len(sub)) : SubSeq(cs, k + 1, k + Len(sub)) = sub

\* a.to_lowercase().contains(&b.to_lowercase())
contains_ignore_case(a, b) ==
    contains(lowercase(Chars(a)), lowercase(Chars(b)))

\* The words the index makes of a text: lower-cased, split at the spaces.
RECURSIVE SplitWords(_, _, _)
SplitWords(cs, word, words) ==
    LET closed == IF word = <<>> THEN words ELSE words \cup {word}
    IN  IF cs = <<>> THEN closed
        ELSE IF Head(cs) = " " THEN SplitWords(Tail(cs), <<>>, closed)
        ELSE SplitWords(Tail(cs), Append(word, Head(cs)), words)

\* The texts of the model, and the words of each.
Texts ==
    {"", "Yesterday", "Yesterday Tomorrow", "yesterday", "tomorrow",
     "The Beatles", "Someone", "beat", "SOMEONE", "Help", "Abbey Road", "hel",
     "0001", "0002", "000"}

WordsOf == [s \in Texts |-> SplitWords(lowercase(Chars(s)), <<>>, {})]

Tokens(s) == WordsOf[s]

\* ------------------------------------------------------ the catalog's rows
NameOf(id) == IF id % 2 = 0 THEN "Yesterday Tomorrow" ELSE "Yesterday"
ArtistOf(id) == IF id % 2 = 0 THEN "Someone" ELSE "The Beatles"
AlbumOf(id) == IF id % 2 = 0 THEN "Abbey Road" ELSE "Help"

IsrcOf(id) == IF id % 2 = 0 THEN "us2" ELSE "gb1"
UpcOf(id) == IF id % 2 = 0 THEN "0002" ELSE "0001"

\* songs row joined with its artists and albums: the two string_agg columns
\* are NULL when the join finds no associated row.
SongRow(id, artist_names, album_names) ==
    [id |-> id, name |-> NameOf(id), artist_names |-> artist_names,
     album_names |-> album_names, isrc |-> IsrcOf(id)]

ArtistRow(id) == [id |-> id, name |-> NameOf(id)]

AlbumRow(id, artist_names) ==
    [id |-> id, name |-> NameOf(id), artist_names |-> artist_names,
     upc |-> UpcOf(id)]

GoodRow(table, id) ==
    CASE table = "song" -> SongRow(id, ArtistOf(id), AlbumOf(id))
      [] table = "artist" -> ArtistRow(id)
      [] table = "album" -> AlbumRow(id, ArtistOf(id))

\* What a row can become when a writer of the relational store removes an
\* association (the aggregate is NULL) or empties the name of the associated
\* entity (the aggregate is "").
RowChanges(table, id) ==
    CASE table = "song" ->
            {SongRow(id, NULL, AlbumOf(id)), SongRow(id, ArtistOf(id), ""),
             SongRow(id, "", AlbumOf(id)), SongRow(id, ArtistOf(id), NULL)}
      [] table = "artist" -> {}
      [] table = "album" -> {AlbumRow(id, NULL), AlbumRow(id, "")}

VARIABLES
    backend,    \* which SearchClient the server was built with
    index,      \* the index's documents, in the order the index ranks them
    db,         \* db[table]: the table's rows, a function of the ids it holds
    writes,     \* writes to the two stores so far
    pc,         \* where the request in flight stands
    req,        \* the arguments of the call in flight
    idsResp,    \* manticore: response of the ranked-ids query
    cntResp,    \* manticore: response of the COUNT query
    hits,       \* the page of hits taken from the index response
    pos,        \* es: number of hits already hydrated
    total,      \* AdvancedSearchResult.total
    items,      \* AdvancedSearchResult.items
    entity,     \* result of get_*_by_id: the entity, or None
    outcome,    \* "ok", or how the call failed
    seen,       \* history: the relational rows hydration read, per hit
    queries,    \* relational queries the call in flight has issued
    raw,        \* the text a boundary step is given (query builder, handlers)
    built       \* what the boundary step makes of it

vars == <<backend, index, db, writes, pc, req, idsResp, cntResp,
          hits, pos, total, items, entity, outcome, seen, queries,
          raw, built>>

envVars == <<backend, index, db, writes>>
callVars == <<pc, req, idsResp, cntResp, hits, pos, total, items, entity,
              outcome, seen, queries>>
textVars == <<raw, built>>

Pending == [kind |-> "pending"]
NoReq == [op |-> "none"]
NoEntity == [kind |-> "none"]       \* Ok(None)
NoText == [kind |-> "none"]
EmptyMap == [x \in {} |-> NoEntity]  \* HashMap::new()

Range(s) == {s[k] : k \in DOMAIN s}

\* ------------------------------------------------------------- the index
\* The document the sync pipeline builds from a row, its text fields as the
\* index tokenises them. Only a song document has artist_name and album_name
\* (COALESCE(array_agg(..), ARRAY[])); send_batch fills them with "" for the
\* others.
DocOf(table, row) ==
    [doc_id |-> row.id, name |-> Tokens(row.name), item_type |-> table,
     artist_name |-> IF table = "song"
                     THEN Tokens(IF row.artist_names = NULL THEN ""
                                 ELSE row.artist_names)
                     ELSE {},
     album_name |-> IF table = "song"
                    THEN Tokens(IF row.album_names = NULL THEN ""
                                ELSE row.album_names)
                    ELSE {}]

\* Full-text match of a document against the query text.
Matches(doc, query) == Tokens(query) \subseteq doc.name

Min(a, b) == IF a < b THEN a ELSE b

\* LIMIT offset, limit  /  "from": offset, "size": limit
Page(s, offset, limit) == SubSeq(s, offset + 1, Min(offset + limit, Len(s)))


\* ---------------------------------------------------- manticore: the index
\* The two statements search_advanced sends. An absent item type takes the
\* second branch of the function, which writes item_type='song' itself.
\* A statement is held by its clauses: where (MATCH(..) AND item_type=..)
\* and paged (LIMIT offset, limit).
\* clean(query), then " @artist_name .." and " @album_name .." for the filter
\* texts that are given. The texts of the model hold no character that clean
\* replaces.
match_expr(r) ==
    [text |-> r.query, artist_name |-> r.artist_filter,
     album_name |-> r.album_filter]

sql(r) ==
    [where |-> TRUE, match_expr |-> match_expr(r),
     item_type |-> IF r.item_type = None THEN "song" ELSE r.item_type,
     paged |-> TRUE, offset |-> r.offset, limit |-> r.limit]

\* Faulty variant: the COUNT statement keeps the LIMIT clause of the first.
total_sql_paged(r) ==
    [where |-> TRUE, match_expr |-> match_expr(r),
     item_type |-> IF r.item_type = None THEN "song" ELSE r.item_type,
     paged |-> TRUE, offset |-> r.offset, limit |-> r.limit]

\* Faulty variant: the COUNT statement has no WHERE clause.
total_sql_raw(r) ==
    [where |-> FALSE, match_expr |-> match_expr(r),
     item_type |-> IF r.item_type = None THEN "song" ELSE r.item_type,
     paged |-> FALSE, offset |-> 0, limit |-> 0]

total_sql(r) ==
    [where |-> TRUE, match_expr |-> match_expr(r),
     item_type |-> IF r.item_type = None THEN "song" ELSE r.item_type,
     paged |-> FALSE, offset |-> 0, limit |-> 0]

\* MATCH('text @artist_name a @album_name b'): the text matches, and every
\* word of a field clause is a word of that field of the document.
MatchesExpr(doc, e) ==
    /\ Matches(doc, e.text)
    /\ e.artist_name # None => Tokens(e.artist_name) \subseteq doc.artist_name
    /\ e.album_name # None => Tokens(e.album_name) \subseteq doc.album_name

\* The rows of the index a statement's WHERE clause selects, in rank order.
Selected(idx, q) ==
    IF q.where
    THEN SelectSeq(idx, LAMBDA d :
             MatchesExpr(d, q.match_expr) /\ d.item_type = q.item_type)
    ELSE idx

Limited(rows, q) == IF q.paged THEN Page(rows, q.offset, q.limit) ELSE rows

\* SELECT doc_id FROM music WHERE MATCH(..) AND item_type=.. LIMIT o, l
ManticoreSelect(idx, q) ==
    LET p == Limited(Selected(idx, q), q)
    IN  [k \in 1..Len(p) |-> [id |-> p[k].doc_id, item_type |-> p[k].item_type]]

\* SELECT COUNT(*) as cnt FROM music WHERE MATCH(..) AND item_type=.. :
\* one row, which a LIMIT clause may skip.
ManticoreCount(idx, q) ==
    Limited(<<[cnt |-> Len(Selected(idx, q))]>>, q)

\* SELECT item_type FROM music WHERE doc_id=..
ManticorePointGet(idx, id) ==
    LET m == SelectSeq(idx, LAMBDA d : d.doc_id = id)
    IN  [k \in 1..Len(m) |-> [item_type |-> m[k].item_type]]

\* response["hits"]["hits"].as_array().unwrap_or(&empty_vec)
parse_hits(resp) == IF resp.kind = "ok" THEN resp.hits ELSE <<>>

\* total_response["hits"]["hits"].get(0)
\*     .and_then(|h| h["_source"]["cnt"].as_i64()).unwrap_or(0)
parse_total(resp) ==
    IF parse_hits(resp) = <<>> THEN 0 ELSE parse_hits(resp)[1].cnt

\* Faulty variant: the type of the document is not compared.
point_get_accepts_any_type(h, t) == h # <<>>

\* get_*_by_id goes on to hydrate when the point-get has a hit and the
\* first hit's item_type is the function's own.
point_get_accepts(h, t) == h # <<>> /\ h[1].item_type = t

\* ------------------------------------------------------------- hydration
\* Option<String>::unwrap_or_default
unwrap_or_default(v) == IF v = NULL THEN "" ELSE v

Song(r, artist, album) ==
    [kind |-> "song", id |-> r.id, name |-> r.name, artist |-> artist,
     album |-> album, isrc |-> r.isrc]

Artist(r) == [kind |-> "artist", id |-> r.id, name |-> r.name]

Album(r, artist) ==
    [kind |-> "album", id |-> r.id, name |-> r.name, artist |-> artist,
     upc |-> r.upc]

\* manticore.rs: rows with an empty artist or album aggregate are skipped.
fetch_songs_batch(rows, ids) ==
    IF ids = <<>> THEN EmptyMap
    ELSE LET artist(i) == unwrap_or_default(rows[i].artist_names)
             album(i) == unwrap_or_default(rows[i].album_names)
             kept == {i \in Range(ids) \cap DOMAIN rows :
                         ~(artist(i) = "" \/ album(i) = "")}
         IN  [i \in kept |-> Song(rows[i], artist(i), album(i))]

\* Faulty variant: an entry for every id asked for, row or no row.
fetch_artists_batch_every_id(rows, ids) ==
    [i \in Range(ids) |->
        IF i \in DOMAIN rows THEN Artist(rows[i])
        ELSE [kind |-> "artist", id |-> i, name |-> {}]]

fetch_artists_batch(rows, ids) ==
    IF ids = <<>> THEN EmptyMap
    ELSE [i \in Range(ids) \cap DOMAIN rows |-> Artist(rows[i])]

\* Faulty variant: no guard on the artist aggregate.
fetch_albums_batch_unguarded(rows, ids) ==
    [i \in Range(ids) \cap DOMAIN rows |->
        Album(rows[i], unwrap_or_default(rows[i].artist_names))]

fetch_albums_batch(rows, ids) ==
    IF ids = <<>> THEN EmptyMap
    ELSE LET artist_name(i) == unwrap_or_default(rows[i].artist_names)
             kept == {i \in Range(ids) \cap DOMAIN rows : artist_name(i) # ""}
         IN  [i \in kept |-> Album(rows[i], artist_name(i))]

\* The single-id hydrators return Ok(Some(entity)) or Ok(None).
Found(e) == [status |-> "ok", value |-> e]
NotFound == [status |-> "ok", value |-> NoEntity]
Panicked == [status |-> "panic", value |-> NoEntity]

\* Faulty variant: the guard looks at the artist aggregate only.
m_fetch_song_details_artist_only(rows, id) ==
    IF id \notin DOMAIN rows THEN NotFound
    ELSE LET artist == unwrap_or_default(rows[id].artist_names)
             album == unwrap_or_default(rows[id].album_names)
         IN  IF artist = "" THEN NotFound
             ELSE Found(Song(rows[id], artist, album))

m_fetch_song_details(rows, id) ==
    IF id \notin DOMAIN rows THEN NotFound
    ELSE LET artist == unwrap_or_default(rows[id].artist_names)
             album == unwrap_or_default(rows[id].album_names)
         IN  IF artist = "" \/ album = "" THEN NotFound
             ELSE Found(Song(rows[id], artist, album))

m_fetch_artist_details(rows, id) ==
    IF id \notin DOMAIN rows THEN NotFound ELSE Found(Artist(rows[id]))

m_fetch_album_details(rows, id) ==
    IF id \notin DOMAIN rows THEN NotFound
    ELSE LET artist_name == unwrap_or_default(rows[id].artist_names)
         IN  IF artist_name = "" THEN NotFound
             ELSE Found(Album(rows[id], artist_name))

\* search.rs decodes the aggregates as String, not Option<String>: Row::get
\* panics when the column is NULL.
es_fetch_song_details(rows, id) ==
    IF id \notin DOMAIN rows THEN NotFound
    ELSE IF rows[id].artist_names = NULL \/ rows[id].album_names = NULL
         THEN Panicked
    ELSE IF rows[id].artist_names = "" \/ rows[id].album_names = ""
         THEN NotFound
    ELSE Found(Song(rows[id], rows[id].artist_names, rows[id].album_names))

es_fetch_artist_details(rows, id) ==
    IF id \notin DOMAIN rows THEN NotFound ELSE Found(Artist(rows[id]))

es_fetch_album_details(rows, id) ==
    IF id \notin DOMAIN rows THEN NotFound
    ELSE IF rows[id].artist_names = NULL THEN Panicked
    ELSE IF rows[id].artist_names = "" THEN NotFound
    ELSE Found(Album(rows[id], rows[id].artist_names))

\* ------------------------------------------------------------------- Init
EngineInit ==
    /\ backend \in Backends
    /\ index = <<>>
    /\ db = [t \in ItemTypes |-> [i \in TableIds(t) |-> GoodRow(t, i)]]
    /\ writes = 0
    /\ pc = "idle"
    /\ req = NoReq
    /\ idsResp = Pending
    /\ cntResp = Pending
    /\ hits = <<>>
    /\ pos = 0
    /\ total = 0
    /\ items = <<>>
    /\ entity = NoEntity
    /\ outcome = "none"
    /\ seen = <<>>
    /\ queries = 0

Init ==
    /\ EngineInit
    /\ raw = NoText
    /\ built = NoText

\* ------------------------------------------- writers of the two stores
\* The writers run at any time before and during a call. Between a call's
\* return and the Return step that drops its locals nothing else is
\* scheduled: a write there commutes with Return.
Running == pc # "done"

\* The documents a sync builds from a table, in the order it streams the
\* rows. The tables of the model fit in one batch (BATCH_SIZE rows).
BatchOf(t, rows) ==
    LET present == SelectSeq(IdSeq, LAMBDA i : i \in DOMAIN rows)
    IN  [k \in 1..Len(present) |-> DocOf(t, rows[present[k]])]

\* examples/sync_to_manticore.rs, send_batch: every row becomes an inserted
\* document; the insert names no document id, so a table synced twice has
\* each of its rows there twice.
SyncToManticore(t) ==
    /\ backend = "manticore"
    /\ Running
    /\ writes < MaxWrites
    /\ DOMAIN db[t] # {}
    /\ index' = index \o BatchOf(t, db[t])
    /\ writes' = writes + 1
    /\ UNCHANGED <<backend, db>>
    /\ UNCHANGED callVars
    /\ UNCHANGED textVars

\* BulkOperation::index(doc).id(&id): the document replaces the one stored
\* under the same id.
Upsert(idx, doc) ==
    IF \E k \in DOMAIN idx : idx[k].doc_id = doc.doc_id
    THEN [k \in DOMAIN idx |->
              IF idx[k].doc_id = doc.doc_id THEN doc ELSE idx[k]]
    ELSE Append(idx, doc)

RECURSIVE UpsertAll(_, _)
UpsertAll(idx, docs) ==
    IF docs = <<>> THEN idx
    ELSE UpsertAll(Upsert(idx, Head(docs)), Tail(docs))

\* examples/sync_to_es.rs, send_bulk
SyncToEs(t) ==
    /\ backend = "es"
    /\ Running
    /\ writes < MaxWrites
    /\ DOMAIN db[t] # {}
    /\ index' = UpsertAll(index, BatchOf(t, db[t]))
    /\ writes' = writes + 1
    /\ UNCHANGED <<backend, db>>
    /\ UNCHANGED callVars
    /\ UNCHANGED textVars

\* A row is deleted from songs, artists or albums.
DbDeleteRow(t, i) ==
    /\ Running
    /\ writes < MaxWrites
    /\ i \in DOMAIN db[t]
    /\ db' = [db EXCEPT ![t] = [j \in DOMAIN db[t] \ {i} |-> db[t][j]]]
    /\ writes' = writes + 1
    /\ UNCHANGED <<backend, index>>
    /\ UNCHANGED callVars
    /\ UNCHANGED textVars

\* An association of the row is deleted or emptied.
DbChangeRow(t, i) ==
    /\ Running
    /\ writes < MaxWrites
    /\ i \in DOMAIN db[t]
    /\ \E r \in RowChanges(t, i) \ {db[t][i]} :
          db' = [db EXCEPT ![t][i] = r]
    /\ writes' = writes + 1
    /\ UNCHANGED <<backend, index>>
    /\ UNCHANGED callVars
    /\ UNCHANGED textVars

\* ------------------------------------------------------------- the calls
Ready == pc = "idle"

\* The arguments of search_advanced, without the two filter texts.
SearchReq(q, t, isrc, upc, l, o) ==
    [op |-> "search", query |-> q, item_type |-> t, artist_filter |-> None,
     album_filter |-> None, isrc_filter |-> isrc, upc_filter |-> upc,
     limit |-> l, offset |-> o, id |-> 0]

\* The same call with the artist and album filter texts supplied.
TextSearchReq(q, t, artist, album, isrc, upc, l, o) ==
    [SearchReq(q, t, isrc, upc, l, o) EXCEPT
        !.artist_filter = artist, !.album_filter = album]

GetReq(t, i) ==
    [op |-> "get", query |-> "", item_type |-> t, artist_filter |-> None,
     album_filter |-> None, isrc_filter |-> None, upc_filter |-> None,
     limit |-> 0, offset |-> 0, id |-> i]

\* A call starts with fresh locals.
Fresh(r) ==
    /\ req' = r
    /\ idsResp' = Pending
    /\ cntResp' = Pending
    /\ hits' = <<>>
    /\ pos' = 0
    /\ total' = 0
    /\ items' = <<>>
    /\ entity' = NoEntity
    /\ seen' = <<>>
    /\ queries' = 0

\* What hydration read for a hit: the row, that there is none, or that the
\* query failed.
RowSeen(rows, i) ==
    IF i \in DOMAIN rows THEN [found |-> "row", row |-> rows[i]]
    ELSE [found |-> "norow"]
QueryFailed == [found |-> "error"]

IdsOf(h) == [k \in 1..Len(h) |-> h[k].id]

\* Faulty variant: the two ISRCs are compared as they are written.
IsrcPasses_case_sensitive(song, isrc) == isrc = None \/ song.isrc = isrc

\* song.isrc.to_lowercase() != isrc.to_lowercase() => continue
IsrcPasses(song, isrc) ==
    isrc = None \/ to_lowercase(song.isrc) = to_lowercase(isrc)

\* Faulty variant: the album's UPC has only to contain the filter.
UpcPasses_substring(album, upc) ==
    upc = None \/ contains_ignore_case(album.upc, upc)

\* album.upc.to_lowercase() != upc.to_lowercase() => continue
UpcPasses(album, upc) ==
    upc = None \/ to_lowercase(album.upc) = to_lowercase(upc)

\* ---------------------------------------------- manticore: search_advanced
\* artists, albums, upcs: the filter values the callers of the run supply.
MSearchStartWith(artists, albums, upcs) ==
    /\ backend = "manticore"
    /\ Ready
    /\ \E q \in Queries, t \in ReqTypes, artist \in artists, album \in albums,
          isrc \in IsrcFilters, upc \in upcs, l \in Limits, o \in Offsets :
          Fresh(TextSearchReq(q, t, artist, album, isrc, upc, l, o))
    /\ pc' = "m_join"
    /\ outcome' = "none"
    /\ UNCHANGED envVars
    /\ UNCHANGED textVars

MSearchStart == MSearchStartWith({None}, {None}, UpcFilters)

\* What the index can answer to a statement: the result, a JSON body of
\* another shape (an error object), or nothing (the request fails).
\* tokio::try_join!(..)? ends the call at the first failure.
MIdsQuery ==
    /\ pc = "m_join"
    /\ idsResp = Pending
    /\ \/ /\ idsResp' = [kind |-> "ok", hits |-> ManticoreSelect(index, sql(req))]
          /\ UNCHANGED <<pc, outcome>>
       \/ /\ idsResp' = [kind |-> "malformed"]
          /\ UNCHANGED <<pc, outcome>>
       \/ /\ idsResp' = [kind |-> "err"]
          /\ pc' = "done"
          /\ outcome' = "index_error"
    /\ UNCHANGED <<req, cntResp, hits, pos, total, items, entity, seen,
                   queries>>
    /\ UNCHANGED envVars
    /\ UNCHANGED textVars

MCountQuery ==
    /\ pc = "m_join"
    /\ cntResp = Pending
    /\ \/ /\ cntResp' = [kind |-> "ok",
                         hits |-> ManticoreCount(index, total_sql(req))]
          /\ UNCHANGED <<pc, outcome>>
       \/ /\ cntResp' = [kind |-> "malformed"]
          /\ UNCHANGED <<pc, outcome>>
       \/ /\ cntResp' = [kind |-> "err"]
          /\ pc' = "done"
          /\ outcome' = "index_error"
    /\ UNCHANGED <<req, idsResp, hits, pos, total, items, entity, seen,
                   queries>>
    /\ UNCHANGED envVars
    /\ UNCHANGED textVars

\* Faulty variant: the items are built in the order of the map's keys.
MItems_map_order(t, ids, map, r) ==
    LET keep(i) ==
            /\ i \in Range(ids) \cap DOMAIN map
            /\ t = "song" => IsrcPasses(map[i], r.isrc_filter)
            /\ t = "album" => UpcPasses(map[i], r.upc_filter)
        kept == SelectSeq(IdSeq, keep)
    IN  [k \in 1..Len(kept) |-> map[kept[k]]]

\* The items search_advanced builds from the ids and the hydration map.
MItems(t, ids, map, r) ==
    LET keep(i) ==
            /\ i \in DOMAIN map
            /\ t = "song" => IsrcPasses(map[i], r.isrc_filter)
            /\ t = "album" => UpcPasses(map[i], r.upc_filter)
        kept == SelectSeq(ids, keep)
    IN  [k \in 1..Len(kept) |-> map[kept[k]]]

\* Faulty variant: the batch query is sent for an empty id list too.
batch_queries_unguarded(ids) == 1

\* if ids.is_empty() { return Ok(HashMap::new()); } stands before the query
\* of fetch_songs_batch, fetch_artists_batch and fetch_albums_batch.
batch_queries(ids) == IF ids = <<>> THEN 0 ELSE 1

MBatch(t, ids) ==
    CASE t = "song" -> fetch_songs_batch(db["song"], ids)
      [] t = "artist" -> fetch_artists_batch(db["artist"], ids)
      [] t = "album" -> fetch_albums_batch(db["album"], ids)

\* Faulty variant: hydration starts when the ranked ids are in, with the
\* total read from whatever the COUNT statement has answered by then.
MHydrate_ids_only ==
    /\ pc = "m_join"
    /\ idsResp.kind \in {"ok", "malformed"}
    /\ LET h == parse_hits(idsResp)
           ids == IdsOf(h)
           t == sql(req).item_type
       IN  /\ hits' = h
           /\ total' = IF cntResp = Pending THEN 0 ELSE parse_total(cntResp)
           /\ queries' = IF t \in ItemTypes THEN batch_queries(ids) ELSE 0
           /\ IF t \in ItemTypes /\ ids # <<>>
              THEN \/ /\ items' = MItems(t, ids, MBatch(t, ids), req)
                      /\ seen' = [k \in 1..Len(ids) |-> RowSeen(db[t], ids[k])]
                      /\ outcome' = "ok"
                   \/ /\ items' = <<>>
                      /\ seen' = [k \in 1..Len(ids) |-> QueryFailed]
                      /\ outcome' = "db_error"
              ELSE /\ items' = IF t \in ItemTypes
                               THEN MItems(t, ids, MBatch(t, ids), req)
                               ELSE <<>>
                   /\ seen' = <<>>
                   /\ outcome' = "ok"
    /\ pc' = "done"
    /\ UNCHANGED <<req, idsResp, cntResp, pos, entity>>
    /\ UNCHANGED envVars
    /\ UNCHANGED textVars

\* Both responses are in: parse them, hydrate the page in one relational
\* query, filter, return.
MHydrate ==
    /\ pc = "m_join"
    /\ idsResp.kind \in {"ok", "malformed"}
    /\ cntResp.kind \in {"ok", "malformed"}
    /\ LET h == parse_hits(idsResp)
           ids == IdsOf(h)
           t == sql(req).item_type
       IN  /\ hits' = h
           /\ total' = parse_total(cntResp)
           /\ queries' = IF t \in ItemTypes THEN batch_queries(ids) ELSE 0
           /\ IF t \in ItemTypes /\ ids # <<>>
              THEN \/ /\ items' = MItems(t, ids, MBatch(t, ids), req)
                      /\ seen' = [k \in 1..Len(ids) |-> RowSeen(db[t], ids[k])]
                      /\ outcome' = "ok"
                   \/ /\ items' = <<>>
                      /\ seen' = [k \in 1..Len(ids) |-> QueryFailed]
                      /\ outcome' = "db_error"
              ELSE /\ items' = IF t \in ItemTypes
                               THEN MItems(t, ids, MBatch(t, ids), req)
                               ELSE <<>>
                   /\ seen' = <<>>
                   /\ outcome' = "ok"
    /\ pc' = "done"
    /\ UNCHANGED <<req, idsResp, cntResp, pos, entity>>
    /\ UNCHANGED envVars
    /\ UNCHANGED textVars

\* ----------------------------------------------------- es: search_advanced
\* The body of the one search request: the multi_match clause, the term
\* filter on item_type when a type is given, size and from.
search_body(r) ==
    [query |-> r.query,
     filter |-> IF r.item_type = None THEN {} ELSE {r.item_type},
     size |-> r.limit, from |-> r.offset]

EsMatching(idx, body) ==
    SelectSeq(idx, LAMBDA d :
        Matches(d, body.query) /\ \A t \in body.filter : d.item_type = t)

\* hits.hits of the response, with the _source fields asked for
EsHits(idx, body) ==
    LET p == Page(EsMatching(idx, body), body.from, body.size)
    IN  [k \in 1..Len(p) |-> [id |-> p[k].doc_id, item_type |-> p[k].item_type]]

\* hits.total.value of the response
EsTotal(idx, body) == Len(EsMatching(idx, body))

ESearchWith(artists, albums, upcs) ==
    /\ backend = "es"
    /\ Ready
    /\ \E q \in Queries, t \in ReqTypes, artist \in artists, album \in albums,
          isrc \in IsrcFilters, upc \in upcs, l \in Limits, o \in Offsets :
          LET r == TextSearchReq(q, t, artist, album, isrc, upc, l, o)
              h == EsHits(index, search_body(r))
          IN  /\ req' = r
              /\ \/ /\ idsResp' = [kind |-> "ok"]
                    /\ hits' = h
                    /\ total' = EsTotal(index, search_body(r))
                    /\ pc' = IF h = <<>> THEN "done" ELSE "es_loop"
                    /\ outcome' = IF h = <<>> THEN "ok" ELSE "none"
                 \/ /\ idsResp' = [kind |-> "malformed"]
                    /\ hits' = <<>>
                    /\ total' = 0
                    /\ pc' = "done"
                    /\ outcome' = "ok"
                 \/ /\ idsResp' = [kind |-> "err"]
                    /\ hits' = <<>>
                    /\ total' = 0
                    /\ pc' = "done"
                    /\ outcome' = "index_error"
    /\ UNCHANGED <<cntResp, pos, items, entity, seen, queries>>
    /\ UNCHANGED envVars
    /\ UNCHANGED textVars

ESearch == ESearchWith({None}, {None}, UpcFilters)

es_fetch_details(t, id) ==
    CASE t = "song" -> es_fetch_song_details(db["song"], id)
      [] t = "artist" -> es_fetch_artist_details(db["artist"], id)
      [] t = "album" -> es_fetch_album_details(db["album"], id)

\* !x.to_lowercase().contains(&filter.to_lowercase()) => continue
TextPasses(x, filter) == filter = None \/ contains_ignore_case(x, filter)

\* The filters of the es loop on a hydrated entity.
EsPasses(e, r) ==
    /\ e.kind = "song" =>
          /\ TextPasses(e.artist, r.artist_filter)
          /\ TextPasses(e.album, r.album_filter)
          /\ IsrcPasses(e, r.isrc_filter)
    /\ e.kind = "artist" => TextPasses(e.name, r.artist_filter)
    /\ e.kind = "album" =>
          /\ TextPasses(e.artist, r.artist_filter)
          /\ UpcPasses(e, r.upc_filter)

\* Faulty variant: a hit of an unknown type ends the call with an error.
EHydrate_unknown_fails ==
    /\ pc = "es_loop"
    /\ pos < Len(hits)
    /\ LET hit == hits[pos + 1]
           last == pos + 1 = Len(hits)
           r == es_fetch_details(hit.item_type, hit.id)
       IN  IF hit.item_type \notin ItemTypes
           THEN /\ UNCHANGED items
                /\ seen' = Append(seen, [found |-> "noquery"])
                /\ UNCHANGED queries
                /\ pc' = "done"
                /\ outcome' = "unknown_type"
           ELSE /\ queries' = queries + 1
                /\ \/ /\ r.status = "panic"
                      /\ UNCHANGED items
                      /\ seen' = Append(seen, RowSeen(db[hit.item_type], hit.id))
                      /\ pc' = "done"
                      /\ outcome' = "panic"
                   \/ /\ r.status = "ok"
                      /\ items' = IF r.value # NoEntity /\ EsPasses(r.value, req)
                                  THEN Append(items, r.value) ELSE items
                      /\ seen' = Append(seen, RowSeen(db[hit.item_type], hit.id))
                      /\ pc' = IF last THEN "done" ELSE "es_loop"
                      /\ outcome' = IF last THEN "ok" ELSE "none"
                   \/ /\ UNCHANGED items
                      /\ seen' = Append(seen, QueryFailed)
                      /\ pc' = IF last THEN "done" ELSE "es_loop"
                      /\ outcome' = IF last THEN "ok" ELSE "none"
    /\ pos' = pos + 1
    /\ UNCHANGED <<req, idsResp, cntResp, hits, total, entity>>
    /\ UNCHANGED envVars
    /\ UNCHANGED textVars

\* One turn of the loop over the hits: one relational query. A query that
\* fails is not matched by `if let Ok(Some(..))`, and the hit is passed over.
EHydrate ==
    /\ pc = "es_loop"
    /\ pos < Len(hits)
    /\ LET hit == hits[pos + 1]
           last == pos + 1 = Len(hits)
           r == es_fetch_details(hit.item_type, hit.id)
       IN  IF hit.item_type \notin ItemTypes
           THEN /\ UNCHANGED items
                /\ seen' = Append(seen, [found |-> "noquery"])
                /\ UNCHANGED queries
                /\ pc' = IF last THEN "done" ELSE "es_loop"
                /\ outcome' = IF last THEN "ok" ELSE "none"
           ELSE /\ queries' = queries + 1
                /\ \/ /\ r.status = "panic"
                      /\ UNCHANGED items
                      /\ seen' = Append(seen, RowSeen(db[hit.item_type], hit.id))
                      /\ pc' = "done"
                      /\ outcome' = "panic"
                   \/ /\ r.status = "ok"
                      /\ items' = IF r.value # NoEntity /\ EsPasses(r.value, req)
                                  THEN Append(items, r.value) ELSE items
                      /\ seen' = Append(seen, RowSeen(db[hit.item_type], hit.id))
                      /\ pc' = IF last THEN "done" ELSE "es_loop"
                      /\ outcome' = IF last THEN "ok" ELSE "none"
                   \/ /\ UNCHANGED items
                      /\ seen' = Append(seen, QueryFailed)
                      /\ pc' = IF last THEN "done" ELSE "es_loop"
                      /\ outcome' = IF last THEN "ok" ELSE "none"
    /\ pos' = pos + 1
    /\ UNCHANGED <<req, idsResp, cntResp, hits, total, entity>>
    /\ UNCHANGED envVars
    /\ UNCHANGED textVars

\* ------------------------------------------------------------ get_*_by_id
\* get_song_by_id, get_artist_by_id, get_album_by_id differ in the type
\* they compare with and in the hydrator they call: t names the function.
MGet ==
    /\ backend = "manticore"
    /\ Ready
    /\ \E t \in ItemTypes, i \in Ids :
          LET h == ManticorePointGet(index, i)
          IN  /\ req' = GetReq(t, i)
              /\ \/ /\ idsResp' = [kind |-> "ok"]
                    /\ hits' = h
                    /\ IF point_get_accepts(h, t)
                       THEN pc' = "get_fetch" /\ outcome' = "none"
                       ELSE pc' = "done" /\ outcome' = "ok"
                 \/ /\ idsResp' = [kind |-> "malformed"]
                    /\ hits' = <<>>
                    /\ pc' = "done"
                    /\ outcome' = "ok"
                 \/ /\ idsResp' = [kind |-> "err"]
                    /\ hits' = <<>>
                    /\ pc' = "done"
                    /\ outcome' = "index_error"
    /\ UNCHANGED <<cntResp, pos, total, items, entity, seen, queries>>
    /\ UNCHANGED envVars
    /\ UNCHANGED textVars

\* GET music/_doc/{id}: 404 when the index holds no document under the id,
\* else the document; a body of another shape has no _source.item_type.
EsPointGet(idx, id) ==
    LET m == SelectSeq(idx, LAMBDA d : d.doc_id = id)
    IN  [k \in 1..Len(m) |-> [item_type |-> m[k].item_type]]

\* status 404 => Ok(None); item_type != the function's own => Ok(None)
es_point_get_accepts(h, t) == h # <<>> /\ h[1].item_type = t

EGet ==
    /\ backend = "es"
    /\ Ready
    /\ \E t \in ItemTypes, i \in Ids :
          LET h == EsPointGet(index, i)
          IN  /\ req' = GetReq(t, i)
              /\ \/ /\ idsResp' = [kind |-> "ok"]
                    /\ hits' = h
                    /\ IF es_point_get_accepts(h, t)
                       THEN pc' = "get_fetch" /\ outcome' = "none"
                       ELSE pc' = "done" /\ outcome' = "ok"
                 \/ /\ idsResp' = [kind |-> "malformed"]
                    /\ hits' = <<>>
                    /\ pc' = "done"
                    /\ outcome' = "ok"
                 \/ /\ idsResp' = [kind |-> "err"]
                    /\ hits' = <<>>
                    /\ pc' = "done"
                    /\ outcome' = "index_error"
    /\ UNCHANGED <<cntResp, pos, total, items, entity, seen, queries>>
    /\ UNCHANGED envVars
    /\ UNCHANGED textVars

m_fetch_details(t, id) ==
    CASE t = "song" -> m_fetch_song_details(db["song"], id)
      [] t = "artist" -> m_fetch_artist_details(db["artist"], id)
      [] t = "album" -> m_fetch_album_details(db["album"], id)

\* Faulty variant: a get that finds no entity deletes the document from the
\* index.
GetFetch_heals_index ==
    /\ pc = "get_fetch"
    /\ LET r == IF backend = "manticore"
                THEN m_fetch_details(req.item_type, req.id)
                ELSE es_fetch_details(req.item_type, req.id)
       IN  \/ /\ entity' = r.value
              /\ seen' = <<RowSeen(db[req.item_type], req.id)>>
              /\ outcome' = r.status
              /\ index' = IF r.value = NoEntity
                          THEN SelectSeq(index, LAMBDA d : d.doc_id # req.id)
                          ELSE index
           \/ /\ entity' = NoEntity
              /\ seen' = <<QueryFailed>>
              /\ outcome' = "db_error"
              /\ UNCHANGED index
    /\ queries' = queries + 1
    /\ pc' = "done"
    /\ UNCHANGED <<req, idsResp, cntResp, hits, pos, total, items>>
    /\ UNCHANGED <<backend, db, writes>>
    /\ UNCHANGED textVars

\* self.fetch_*_details(pool, id).await : one relational query.
GetFetch ==
    /\ pc = "get_fetch"
    /\ LET r == IF backend = "manticore"
                THEN m_fetch_details(req.item_type, req.id)
                ELSE es_fetch_details(req.item_type, req.id)
       IN  \/ /\ entity' = r.value
              /\ seen' = <<RowSeen(db[req.item_type], req.id)>>
              /\ outcome' = r.status
           \/ /\ entity' = NoEntity
              /\ seen' = <<QueryFailed>>
              /\ outcome' = "db_error"
    /\ queries' = queries + 1
    /\ pc' = "done"
    /\ UNCHANGED <<req, idsResp, cntResp, hits, pos, total, items>>
    /\ UNCHANGED envVars
    /\ UNCHANGED textVars

\* The response is sent and the call's locals are dropped.
Return ==
    /\ pc = "done"
    /\ Fresh(NoReq)
    /\ pc' = "idle"
    /\ outcome' = "none"
    /\ UNCHANGED envVars
    /\ UNCHANGED textVars

Next ==
    \/ \E t \in ItemTypes : SyncToManticore(t)
    \/ \E t \in ItemTypes : SyncToEs(t)
    \/ \E t \in ItemTypes, i \in Ids : DbDeleteRow(t, i)
    \/ \E t \in ItemTypes, i \in Ids : DbChangeRow(t, i)
    \/ MSearchStart
    \/ MIdsQuery
    \/ MCountQuery
    \/ MHydrate
    \/ ESearch
    \/ EHydrate
    \/ MGet
    \/ EGet
    \/ GetFetch
    \/ Return



Spec == Init /\ [][Next]_vars

\* ------------------------------------------- searches with filter texts
\* The calls against stores at rest: the index holds the documents of the
\* catalog's rows, the songs in either rank order, and in one case a document
\* another writer of the index left there with a type of its own.
DriftDoc ==
    [doc_id |-> 7, name |-> Tokens("Yesterday"), item_type |-> "podcast",
     artist_name |-> {}, album_name |-> {}]

CatalogDoc(i) ==
    LET t == CHOOSE u \in ItemTypes : i \in TableIds(u)
    IN  DocOf(t, GoodRow(t, i))

TextIndexes ==
    {[k \in 1..6 |-> CatalogDoc(IdSeq[k])],
     [k \in 1..6 |-> CatalogDoc(<<2, 1, 3, 4, 5, 6>>[k])],
     <<CatalogDoc(1), DriftDoc>> \o [k \in 1..5 |-> CatalogDoc(IdSeq[k + 1])]}

TextUpcFilters == UpcFilters \cup {"000"}

TextInit ==
    /\ backend \in Backends
    /\ index \in TextIndexes
    /\ db = [t \in ItemTypes |-> [i \in TableIds(t) |-> GoodRow(t, i)]]
    /\ writes = 0
    /\ pc = "idle"
    /\ req = NoReq
    /\ idsResp = Pending
    /\ cntResp = Pending
    /\ hits = <<>>
    /\ pos = 0
    /\ total = 0
    /\ items = <<>>
    /\ entity = NoEntity
    /\ outcome = "none"
    /\ seen = <<>>
    /\ queries = 0
    /\ raw = NoText
    /\ built = NoText

MSearchText == MSearchStartWith(ArtistFilters, AlbumFilters, TextUpcFilters)

ESearchText == ESearchWith(ArtistFilters, AlbumFilters, TextUpcFilters)

TextNext ==
    \/ MSearchText
    \/ MIdsQuery
    \/ MCountQuery
    \/ MHydrate
    \/ ESearchText
    \/ EHydrate
    \/ Return

TextSpec == TextInit /\ [][TextNext]_vars

\* ------------------------------------------------------ the query builder
\* The characters a query text or filter text of the model is made of: a
\* letter, the space, and the six characters clean replaces.
QueryChars == {"a", " ", "'", "\"", "\\", "@", "!", "^"}

\* str::replace(c, " ")
replace(cs, c) == [k \in DOMAIN cs |-> IF cs[k] = c THEN " " ELSE cs[k]]

\* Faulty variant: the last replace is missing.
clean_without_caret(cs) ==
    replace(replace(replace(replace(replace(cs, "'"), "\""), "\\"), "@"), "!")

\* let clean = |s: &str| s.replace('\'', " ").replace('"', " ") ...
clean(cs) ==
    replace(replace(replace(replace(replace(replace(cs,
        "'"), "\""), "\\"), "@"), "!"), "^")

\* Texts of at most n characters.
TextsUpTo(n) == UNION {[1..k -> QueryChars] : k \in 0..n}

\* An Option<&str>: <<>> is None, <<cs>> is Some(cs).
OptionOf(texts) == {<<>>} \cup {<<cs>> : cs \in texts}

\* The item type of a call as its characters: a type of the catalog, or a
\* text that holds a quote.
TypeTexts == {<<"s", "o", "n", "g">>, <<"a", "'">>}

\* The texts a call of search_advanced (manticore.rs) is given.
CleanInit ==
    /\ EngineInit
    /\ backend = "manticore"
    /\ raw \in [kind : {"texts"},
                query : TextsUpTo(MaxLen),
                item_type : OptionOf(TypeTexts),
                artist_filter : OptionOf(TextsUpTo(1)),
                album_filter : OptionOf({<<"^">>})]
    /\ built = NoText

\* search_advanced up to the two statements: the match expression is built
\* from the cleaned texts; nothing on this path returns or fails. item_type
\* is the text the statements hold between the quotes of item_type='..':
\* the argument as it is given, or song when there is none.
BuildMatchExpr ==
    /\ raw.kind = "texts"
    /\ built = NoText
    /\ built' = [kind |-> "match_expr",
                 text |-> clean(raw.query),
                 item_type |-> IF raw.item_type = <<>>
                               THEN <<"s", "o", "n", "g">>
                               ELSE raw.item_type[1],
                 artist_name |-> [k \in DOMAIN raw.artist_filter |->
                                     clean(raw.artist_filter[k])],
                 album_name |-> [k \in DOMAIN raw.album_filter |->
                                    clean(raw.album_filter[k])]]
    /\ UNCHANGED <<raw, envVars, callVars>>

CleanNext == BuildMatchExpr

CleanSpec == CleanInit /\ [][CleanNext]_vars

\* -------------------------------------------------------- the get handlers
OmidLen == 16

\* The characters a path id of the model is made of: the ends of the two
\* accepted ranges, their neighbours in ASCII, an upper-case letter, a quote
\* and a two-byte character (e with acute accent).
IdChars == {"0", "9", "a", "z", "/", ":", "backtick", "{", "A", "'", "e-acute"}

CodePoint(c) ==
    CASE c = "0" -> 48 [] c = "9" -> 57 [] c = "a" -> 97 [] c = "z" -> 122
      [] c = "/" -> 47 [] c = ":" -> 58 [] c = "backtick" -> 96 [] c = "{" -> 123
      [] c = "A" -> 65 [] c = "'" -> 39 [] c = "e-acute" -> 233

\* char::len_utf8
len_utf8(c) == IF CodePoint(c) < 128 THEN 1 ELSE 2

\* str::len: the length in bytes
RECURSIVE len(_)
len(cs) == IF cs = <<>> THEN 0 ELSE len_utf8(Head(cs)) + len(Tail(cs))

is_ascii_digit(c) == CodePoint(c) >= CodePoint("0") /\ CodePoint(c) <= CodePoint("9")

\* Faulty variant: upper-case letters pass as well.
is_valid_omid_any_case(id) ==
    /\ len(id) = OmidLen
    /\ \A k \in DOMAIN id :
          \/ is_ascii_digit(id[k])
          \/ CodePoint(id[k]) >= CodePoint("a") /\ CodePoint(id[k]) <= CodePoint("z")
          \/ CodePoint(id[k]) >= CodePoint("A") /\ CodePoint(id[k]) <= CodePoint("A") + 25

is_valid_omid(id) ==
    /\ len(id) = OmidLen
    /\ \A k \in DOMAIN id :
          \/ is_ascii_digit(id[k])
          \/ CodePoint(id[k]) >= CodePoint("a") /\ CodePoint(id[k]) <= CodePoint("z")

\* The ids of the model: one character repeated, of a length around OmidLen,
\* with one position holding any character.
RawIds ==
    {<<>>} \cup
    {[k \in 1..n |-> IF k = p THEN d ELSE c] :
        c \in {"0", "z"}, n \in (OmidLen - 2)..(OmidLen + 1),
        p \in 1..(OmidLen + 1), d \in IdChars}

OmidInit ==
    /\ EngineInit
    /\ raw \in [kind : {"path"}, id : RawIds, item_type : ItemTypes]
    /\ built = NoText

\* get_song_handler, get_artist_handler, get_album_handler: 400 before any
\* query when the id is not an OMID, else the call of get_*_by_id with the id.
GetHandler ==
    /\ raw.kind = "path"
    /\ built = NoText
    /\ built' = IF ~is_valid_omid(raw.id)
                THEN [kind |-> "response", status |-> 400,
                      index_queries |-> 0, db_queries |-> 0]
                ELSE [kind |-> "get_by_id", item_type |-> raw.item_type,
                      id |-> raw.id]
    /\ UNCHANGED <<raw, envVars, callVars>>

OmidNext == GetHandler

OmidSpec == OmidInit /\ [][OmidNext]_vars

\* ------------------------------------------------------ the search handler
\* Items and total of an engine result of the model.
MaxTotal == 2

MinLimit == 1
MaxLimit == 100
I32Max == 2147483647
I32Min == (-I32Max) - 1

\* fn default_limit() -> i32
default_limit == 20

\* The values of the query parameters limit and offset: absent, not an i32,
\* or an i32.
Absent == [given |-> "absent", value |-> 0]
NotI32 == [given |-> "text", value |-> 0]
I32(v) == [given |-> "i32", value |-> v]
LimitParams ==
    {Absent, NotI32} \cup
    {I32(v) : v \in {I32Min, -1, 0, MinLimit, 2, MaxLimit - 1, MaxLimit,
                     MaxLimit + 1, I32Max}}
OffsetParams ==
    {Absent, NotI32} \cup {I32(v) : v \in {I32Min, -1, 0, 1, I32Max}}

\* Query<SearchQuery>: serde fills an absent limit with default_limit() and
\* an absent offset with i32::default(); a value that is no i32 is rejected
\* by the extractor.
Rejected == [kind |-> "rejected"]
deserialize(q) ==
    IF q.limit = NotI32 \/ q.offset = NotI32 THEN Rejected
    ELSE [kind |-> "params",
          limit |-> IF q.limit = Absent THEN default_limit
                    ELSE q.limit.value,
          offset |-> IF q.offset = Absent THEN 0 ELSE q.offset.value]

\* Faulty variant: only the upper end of the range is looked at.
limit_rejected_above_only(l) == l > MaxLimit

\* params.limit < 1 || params.limit > 100
limit_rejected(l) == l < MinLimit \/ l > MaxLimit

\* params.offset < 0
offset_rejected(o) == o < 0

BadRequest ==
    [kind |-> "response", status |-> 400, index_queries |-> 0,
     db_queries |-> 0]

\* What search_advanced returns to the handler.
EngineResults ==
    [kind : {"Ok"}, items : UNION {[1..n -> {1, 2}] : n \in 0..MaxTotal},
     total : 0..MaxTotal]
    \cup {[kind |-> "Err"]}

HandlerInit ==
    /\ EngineInit
    /\ raw \in [kind : {"query"}, limit : LimitParams, offset : OffsetParams]
    /\ built = NoText

\* search_handler up to the call of search_advanced.
SearchHandler ==
    /\ raw.kind = "query"
    /\ built = NoText
    /\ LET params == deserialize(raw)
       IN  built' =
              IF params = Rejected THEN BadRequest
              ELSE IF limit_rejected(params.limit) THEN BadRequest
              ELSE IF offset_rejected(params.offset) THEN BadRequest
              ELSE [kind |-> "search_advanced", limit |-> params.limit,
                    offset |-> params.offset]
    /\ UNCHANGED <<raw, envVars, callVars>>

\* search_advanced returns; the handler builds the response.
SearchResponse ==
    /\ built.kind = "search_advanced"
    /\ \E result \in EngineResults :
          built' =
              IF result.kind = "Ok"
              THEN [kind |-> "response", status |-> 200,
                    data |-> result.items, total |-> result.total,
                    limit |-> deserialize(raw).limit,
                    offset |-> deserialize(raw).offset, result |-> result]
              ELSE [kind |-> "response", status |-> 500, result |-> result]
    /\ UNCHANGED <<raw, envVars, callVars>>

HandlerNext == SearchHandler \/ SearchResponse

HandlerSpec == HandlerInit /\ [][HandlerNext]_vars

\* ------------------------------------------ hydration: optional columns
\* A nullable column: <<>> is NULL, <<v>> is the value v.
Nullable(values) == {<<>>} \cup {<<v>> : v \in values}

\* The optional columns of a songs row and of an albums row.
SongColumns ==
    [disc_number : Nullable({2}), track_number : Nullable({3}),
     duration : Nullable({180}), isrc : Nullable({"us2"}),
     date : Nullable({"2020"})]
AlbumColumns ==
    [date : Nullable({"2020"}), track_count : Nullable({12}),
     upc : Nullable({"0002"})]

Hydrators == {"fetch_batch", "fetch_details"}

\* r.get::<Option<T>, _>(col).unwrap_or(d), unwrap_or_default()
get_or(col, d) == IF col = <<>> THEN d ELSE col[1]

\* r.get::<T, _>(col) with T no Option: Row::get panics when the value is
\* NULL.
Decoded(v) == [status |-> "ok", value |-> v]
DecodePanic == [status |-> "panic"]

\* search.rs, fetch_song_details
es_song_columns(r) ==
    Decoded([disc_number |-> get_or(r.disc_number, 1),
             track_number |-> get_or(r.track_number, 1),
             duration |-> get_or(r.duration, 0),
             isrc |-> get_or(r.isrc, ""),
             date |-> get_or(r.date, "")])

\* search.rs, fetch_album_details
es_album_columns(r) ==
    Decoded([date |-> get_or(r.date, ""),
             track_count |-> get_or(r.track_count, 0),
             upc |-> get_or(r.upc, "")])

\* manticore.rs, fetch_songs_batch: the three numbers are read as i64, isrc
\* and date as String.
m_batch_song_columns(r) ==
    IF \/ r.disc_number = <<>>
       \/ r.track_number = <<>>
       \/ r.duration = <<>>
       \/ r.isrc = <<>>
       \/ r.date = <<>>
    THEN DecodePanic
    ELSE Decoded([disc_number |-> r.disc_number[1],
                  track_number |-> r.track_number[1],
                  duration |-> r.duration[1],
                  isrc |-> r.isrc[1],
                  date |-> r.date[1]])

\* manticore.rs, fetch_song_details
m_details_song_columns(r) ==
    IF \/ r.disc_number = <<>>
       \/ r.track_number = <<>>
       \/ r.duration = <<>>
       \/ r.isrc = <<>>
       \/ r.date = <<>>
    THEN DecodePanic
    ELSE Decoded([disc_number |-> r.disc_number[1],
                  track_number |-> r.track_number[1],
                  duration |-> r.duration[1],
                  isrc |-> r.isrc[1],
                  date |-> r.date[1]])

\* manticore.rs, fetch_albums_batch: date is read as Option<String>,
\* track_count as i64, upc as String.
m_batch_album_columns(r) ==
    IF r.track_count = <<>> \/ r.upc = <<>> THEN DecodePanic
    ELSE Decoded([date |-> get_or(r.date, ""),
                  track_count |-> r.track_count[1],
                  upc |-> r.upc[1]])

\* manticore.rs, fetch_album_details
m_details_album_columns(r) ==
    IF r.track_count = <<>> \/ r.upc = <<>> THEN DecodePanic
    ELSE Decoded([date |-> get_or(r.date, ""),
                  track_count |-> r.track_count[1],
                  upc |-> r.upc[1]])

\* A row with its artist and album aggregates in place is handed to a
\* hydrator of the variant the server was built with. search.rs has the
\* single-id hydrators only.
ColumnsInit ==
    /\ EngineInit
    /\ raw \in [kind : {"song_row"}, hydrator : Hydrators,
                columns : SongColumns]
               \cup [kind : {"album_row"}, hydrator : Hydrators,
                     columns : AlbumColumns]
    /\ backend = "es" => raw.hydrator = "fetch_details"
    /\ built = NoText

HydrateColumns ==
    /\ raw.kind \in {"song_row", "album_row"}
    /\ built = NoText
    /\ built' =
          CASE backend = "es" /\ raw.kind = "song_row" ->
                  es_song_columns(raw.columns)
            [] backend = "es" /\ raw.kind = "album_row" ->
                  es_album_columns(raw.columns)
            [] backend = "manticore" /\ raw.kind = "song_row" ->
                  IF raw.hydrator = "fetch_batch"
                  THEN m_batch_song_columns(raw.columns)
                  ELSE m_details_song_columns(raw.columns)
            [] backend = "manticore" /\ raw.kind = "album_row" ->
                  IF raw.hydrator = "fetch_batch"
                  THEN m_batch_album_columns(raw.columns)
                  ELSE m_details_album_columns(raw.columns)
    /\ UNCHANGED <<raw, envVars, callVars>>

ColumnsNext == HydrateColumns

ColumnsSpec == ColumnsInit /\ [][ColumnsNext]_vars

\* ------------------------------------------------------------------ main
\* What the process finds when it starts: whether the primary database and
\* the scrape database accept connections, whether the search client can be
\* built from its URL, whether the index accepts the schema and the count
\* request, and whether port 3000 is free.
Environments ==
    [kind : {"env"}, primary_db : {"up", "down"}, scrape_db : {"up", "down"},
     client_new : {"Ok", "Err"}, create_index : {"Ok", "Err"},
     count : {"Ok", "Err"}, port : {"free", "taken"}]

Paths == {"/", "/telemetry", "/metadata"}

\* No request has been answered.
NotServed == [path |-> "none", status |-> "none"]

\* Faulty variant: the metadata routes are mounted without a scrape pool.
app_router_always_metadata(scrape_pool) == {"/telemetry", "/", "/metadata"}

\* api::app_router: the prefixes the router serves.
app_router(scrape_pool) ==
    {"/telemetry", "/"} \cup
    (IF scrape_pool = "Some" THEN {"/metadata"} ELSE {})

MainInit ==
    /\ EngineInit
    /\ raw \in Environments
    /\ built = NoText

Running_main == raw.kind = "env" /\ built # NoText /\ built.kind = "main"

\* #[tokio::main] async fn main(): nothing is created yet.
MainStart ==
    /\ raw.kind = "env"
    /\ built = NoText
    /\ built' = [kind |-> "main", pc |-> "create_pool", pool |-> FALSE,
                 scrape_pool |-> "unset", search_client |-> FALSE,
                 index_created |-> FALSE, routes |-> {}, listening |-> FALSE,
                 exit |-> "none", served |-> NotServed]
    /\ UNCHANGED <<raw, envVars, callVars>>

\* db::create_pool(): Err => std::process::exit(1)
CreatePool ==
    /\ Running_main
    /\ built.pc = "create_pool"
    /\ built' = IF raw.primary_db = "up"
                THEN [built EXCEPT !.pool = TRUE, !.pc = "scrape_pool"]
                ELSE [built EXCEPT !.exit = "1", !.pc = "exited"]
    /\ UNCHANGED <<raw, envVars, callVars>>

\* PgPoolOptions::new().connect(&scrape_db_url): Err => warn!, None
ConnectScrape ==
    /\ Running_main
    /\ built.pc = "scrape_pool"
    /\ built' = [built EXCEPT
                    !.scrape_pool = IF raw.scrape_db = "up" THEN "Some"
                                    ELSE "None",
                    !.pc = "search_client"]
    /\ UNCHANGED <<raw, envVars, callVars>>

\* SearchClient::new(&es_url): Err => std::process::exit(1)
NewSearchClient ==
    /\ Running_main
    /\ built.pc = "search_client"
    /\ built' = IF raw.client_new = "Ok"
                THEN [built EXCEPT !.search_client = TRUE,
                                   !.pc = "create_index"]
                ELSE [built EXCEPT !.exit = "1", !.pc = "exited"]
    /\ UNCHANGED <<raw, envVars, callVars>>

\* client.create_index(): Err => error!, and main goes on
CreateIndex ==
    /\ Running_main
    /\ built.pc = "create_index"
    /\ built' = IF raw.create_index = "Ok"
                THEN [built EXCEPT !.index_created = TRUE, !.pc = "count"]
                ELSE [built EXCEPT !.pc = "router"]
    /\ UNCHANGED <<raw, envVars, callVars>>

\* client.count(): both results are logged
CountDocuments ==
    /\ Running_main
    /\ built.pc = "count"
    /\ built' = [built EXCEPT !.pc = "router"]
    /\ UNCHANGED <<raw, envVars, callVars>>

\* Router::new().merge(api::app_router(search_client, pool, scrape_pool))
BuildRouter ==
    /\ Running_main
    /\ built.pc = "router"
    /\ built' = [built EXCEPT !.routes = app_router(built.scrape_pool),
                              !.pc = "bind"]
    /\ UNCHANGED <<raw, envVars, callVars>>

\* TcpListener::bind("0.0.0.0:3000").await.unwrap()
Bind ==
    /\ Running_main
    /\ built.pc = "bind"
    /\ built' = IF raw.port = "free"
                THEN [built EXCEPT !.listening = TRUE, !.pc = "serve"]
                ELSE [built EXCEPT !.exit = "panic", !.pc = "exited"]
    /\ UNCHANGED <<raw, envVars, callVars>>

\* axum::serve: a request is routed by its prefix, or answered 404.
Serve ==
    /\ Running_main
    /\ built.pc = "serve"
    /\ \E path \in Paths :
          built' = [built EXCEPT !.served =
                       IF path \in built.routes
                       THEN [path |-> path, status |-> "routed"]
                       ELSE [path |-> path, status |-> "404"]]
    /\ UNCHANGED <<raw, envVars, callVars>>

MainNext ==
    \/ MainStart
    \/ CreatePool
    \/ ConnectScrape
    \/ NewSearchClient
    \/ CreateIndex
    \/ CountDocuments
    \/ BuildRouter
    \/ Bind
    \/ Serve

MainSpec == MainInit /\ [][MainNext]_vars

\* ------------------------------------------------- telemetry bucket interval
\* The widest distance of a range from a bucket boundary that is drawn.
MaxSlack == 1

target_points == 150

\* The interval at which calculate_bucket_interval changes its answer.
Boundaries ==
    {20, 60, 180, 450, 750, 1350, 3600, 5400, 10800, 18000, 32400, 86400,
     432000}

\* to - from of the ranges drawn: reversed, empty and one second long, around
\* every boundary of the interval, and far beyond the last one.
Durations ==
    {-86400, -1, 0, 1}
        \cup {(b * target_points) + s : b \in Boundaries,
                                        s \in (-MaxSlack)..MaxSlack}
        \cup {604800 * target_points}

\* unix_timestamp() of the start of a range.
Froms == {0, 1700000000}

Ranges == {[from |-> f, to |-> f + d] : f \in Froms, d \in Durations}

Max(a, b) == IF a > b THEN a ELSE b

calculate_bucket_interval_swapped(from, to) ==
    LET duration_secs == Max(to - from, 1)
        interval_secs == duration_secs \div target_points
    IN  IF interval_secs < 60
        THEN IF interval_secs < 20 THEN 10 ELSE 30
        ELSE IF interval_secs < 3600
        THEN IF interval_secs < 180 THEN 60
             ELSE IF interval_secs < 450 THEN 300
             ELSE IF interval_secs < 750 THEN 900
             ELSE IF interval_secs < 1350 THEN 600
             ELSE 1800
        ELSE IF interval_secs < 86400
        THEN IF interval_secs < 5400 THEN 3600
             ELSE IF interval_secs < 10800 THEN 7200
             ELSE IF interval_secs < 18000 THEN 10800
             ELSE IF interval_secs < 32400 THEN 21600
             ELSE 43200
        ELSE IF interval_secs < 432000 THEN 86400 ELSE 604800

\* i64 division of a positive dividend: \div is the division of the code.
calculate_bucket_interval(from, to) ==
    LET duration_secs == Max(to - from, 1)
        interval_secs == duration_secs \div target_points
    IN  IF interval_secs < 60
        THEN IF interval_secs < 20 THEN 10 ELSE 30
        ELSE IF interval_secs < 3600
        THEN IF interval_secs < 180 THEN 60
             ELSE IF interval_secs < 450 THEN 300
             ELSE IF interval_secs < 750 THEN 600
             ELSE IF interval_secs < 1350 THEN 900
             ELSE 1800
        ELSE IF interval_secs < 86400
        THEN IF interval_secs < 5400 THEN 3600
             ELSE IF interval_secs < 10800 THEN 7200
             ELSE IF interval_secs < 18000 THEN 10800
             ELSE IF interval_secs < 32400 THEN 21600
             ELSE 43200
        ELSE IF interval_secs < 432000 THEN 86400 ELSE 604800

\* Two dashboard requests, each with its own range.
BucketInit ==
    /\ EngineInit
    /\ raw \in [kind : {"ranges"}, first : Ranges, second : Ranges]
    /\ built = NoText

\* get_songs_over_time and get_users_over_time hand their range to
\* calculate_bucket_interval.
BucketInterval ==
    /\ raw.kind = "ranges"
    /\ built = NoText
    /\ built' = [kind |-> "intervals",
                 first |-> calculate_bucket_interval(raw.first.from,
                                                     raw.first.to),
                 second |-> calculate_bucket_interval(raw.second.from,
                                                      raw.second.to)]
    /\ UNCHANGED <<raw, envVars, callVars>>

BucketNext == BucketInterval

BucketSpec == BucketInit /\ [][BucketNext]_vars

\* ============================================================ properties
Returned(op) == pc = "done" /\ req.op = op

\* The aggregate of a row that the guards look at is empty or NULL.
Empty(v) == v = "" \/ v = NULL
BadSongRow(s) ==
    s.found = "row" /\ (Empty(s.row.artist_names) \/ Empty(s.row.album_names))
BadAlbumRow(s) == s.found = "row" /\ Empty(s.row.artist_names)
NullRow(s, t) ==
    /\ s.found = "row"
    /\ \/ t = "song" /\ (s.row.artist_names = NULL \/ s.row.album_names = NULL)
       \/ t = "album" /\ s.row.artist_names = NULL

\* C1: every item of a search result is a hit of the index page whose
\* relational row hydration read; a hit without a row yields no item and is
\* not what makes a call fail (a call fails only on an index error, a failed
\* relational query, or a row it cannot decode).
C1_ItemsAreHydratedHits ==
    Returned("search") =>
        /\ outcome = "ok" =>
              \A k \in DOMAIN items :
                  \E j \in DOMAIN hits :
                      /\ hits[j].id = items[k].id
                      /\ hits[j].item_type = items[k].kind
                      /\ j \in DOMAIN seen
                      /\ seen[j].found = "row"
                      /\ seen[j].row.id = items[k].id
        /\ \A j \in DOMAIN seen :
              seen[j].found = "norow" =>
                  \A k \in DOMAIN items : items[k].id # hits[j].id
        /\ outcome \in {"ok", "index_error", "db_error", "panic"}
        /\ outcome = "db_error" => \E j \in DOMAIN seen : seen[j] = QueryFailed
        /\ outcome = "panic" =>
              \E j \in DOMAIN seen : NullRow(seen[j], hits[j].item_type)

\* A page of two hits, the first without a row, the second hydrated.
C1_Witness ==
    /\ Returned("search")
    /\ outcome = "ok"
    /\ Len(hits) = 2
    /\ seen[1].found = "norow"
    /\ Len(items) = 1
    /\ items[1].id = hits[2].id

\* C2 (as stated, for both variants): a song row whose artist or album
\* aggregate is empty or NULL is left out of the result, and the call returns.
C2_EmptyAggregateSongExcluded ==
    (pc = "done" /\ req.op \in {"search", "get"}) =>
        \A j \in DOMAIN seen :
            (hits[j].item_type = "song" /\ BadSongRow(seen[j])) =>
                /\ outcome = "ok"
                /\ \A k \in DOMAIN items : items[k].id # seen[j].row.id
                /\ entity = NoEntity

\* C3: an album row with an empty artist aggregate is dropped; an artist
\* whose row exists is never dropped.
C3_AlbumGuardNoArtistGuard ==
    (pc = "done" /\ outcome = "ok" /\ req.op \in {"search", "get"}) =>
        \A j \in DOMAIN seen :
            /\ (hits[j].item_type = "album" /\ BadAlbumRow(seen[j])) =>
                  /\ \A k \in DOMAIN items : items[k].id # seen[j].row.id
                  /\ entity = NoEntity
            /\ (hits[j].item_type = "artist" /\ seen[j].found = "row") =>
                  IF req.op = "search"
                  THEN \E k \in DOMAIN items : items[k] = Artist(seen[j].row)
                  ELSE entity = Artist(seen[j].row)

\* An album search whose first hit has an empty artist aggregate and whose
\* second hit is returned.
C3_Witness ==
    /\ Returned("search")
    /\ outcome = "ok"
    /\ req.item_type = "album"
    /\ Len(hits) = 2
    /\ BadAlbumRow(seen[1])
    /\ Len(items) = 1
    /\ items[1].id = hits[2].id

RECURSIVE IsSubseq(_, _)
IsSubseq(a, b) ==
    \/ a = <<>>
    \/ /\ b # <<>>
       /\ IF Head(a) = Head(b)
          THEN IsSubseq(Tail(a), Tail(b))
          ELSE IsSubseq(a, Tail(b))

\* The documents of the index that match a query text and have a type, in
\* rank order.
Ranked(idx, query, t) ==
    SelectSeq(idx, LAMBDA d : Tokens(query) \subseteq d.name /\ d.item_type = t)

TypeAsked(r) == IF r.item_type = None THEN "song" ELSE r.item_type

\* The step of a manticore search at which the index answers the ranked-ids
\* statement, and the one at which it answers the COUNT statement.
IdsAnswered == pc = "m_join" /\ idsResp = Pending /\ idsResp'.kind = "ok"
CountAnswered == pc = "m_join" /\ cntResp = Pending /\ cntResp'.kind = "ok"

\* C4: the page the index answers is positions [O, O+L) of the ranked
\* matches, and the items of the result are at most L and an order-preserving
\* subsequence of that page.
C4_ItemsSubsequenceOfPage ==
    /\ [][IdsAnswered =>
            LET page == idsResp'.hits
                ranked == Ranked(index, req.query, TypeAsked(req))
            IN  /\ Len(page) <= req.limit
                /\ \A k \in DOMAIN page :
                      /\ req.offset + k <= Len(ranked)
                      /\ page[k].id = ranked[req.offset + k].doc_id]_vars
    /\ [](Returned("search") /\ outcome = "ok" =>
            /\ Len(items) <= req.limit
            /\ backend = "manticore" => hits = parse_hits(idsResp)
            /\ IsSubseq([k \in DOMAIN items |-> items[k].id], IdsOf(hits)))

\* A page that starts at the second ranked hit, both of whose hits are
\* returned, in rank order.
C4_Witness ==
    /\ backend = "manticore"
    /\ Returned("search")
    /\ outcome = "ok"
    /\ req.offset = 1
    /\ Len(hits) = 2
    /\ Len(items) = 2
    /\ hits[1].id > hits[2].id
    /\ items[1].id = hits[1].id
    /\ items[2].id = hits[2].id

\* C5 (as stated): total is at least the number of items, whatever the COUNT
\* statement answers and however the two statements interleave with writes
\* to the index.
C5_TotalBoundsItems ==
    (Returned("search") /\ outcome = "ok") => total >= Len(items)

\* C6: the total the COUNT statement yields is the same for every
\* (limit, offset) of the request, and the result carries it.
C6_TotalSameForEveryPage ==
    /\ [][CountAnswered =>
            \A l \in Limits, o \in Offsets :
                parse_total(cntResp') =
                    parse_total([kind |-> "ok", hits |->
                        ManticoreCount(index,
                            total_sql([req EXCEPT !.limit = l, !.offset = o]))])
         ]_vars
    /\ [](backend = "manticore" /\ Returned("search") /\ outcome = "ok"
             /\ cntResp.kind = "ok" =>
                /\ cntResp.hits # <<>>
                /\ total = cntResp.hits[1].cnt)

\* The guard removes a hit of a full page: total is above the items.
C6_Witness ==
    /\ backend = "manticore"
    /\ Returned("search")
    /\ outcome = "ok"
    /\ cntResp.kind = "ok"
    /\ total = 2
    /\ Len(hits) = 2
    /\ Len(items) = 1

\* The number of documents of the index that match a query text and have
\* one of the types.
MatchCount(idx, query, types) ==
    Cardinality({k \in DOMAIN idx :
                    /\ Tokens(query) \subseteq idx[k].name
                    /\ idx[k].item_type \in types})

\* The step at which the Elasticsearch index answers the search request.
EsAnswered ==
    pc = "idle" /\ backend = "es" /\ req'.op = "search" /\ idsResp'.kind = "ok"

\* The types an Elasticsearch search is restricted to.
EsTypes(r) == IF r.item_type = None THEN ItemTypes ELSE {r.item_type}

\* C7: total is the index's count of the documents that match the query
\* expression (text and type condition) at the time the index is asked, not
\* the number of documents of the index; hydration carries it unchanged, so
\* it depends neither on the relational store nor on the ISRC/UPC filter.
C7_TotalIsIndexMatchCount ==
    /\ [][CountAnswered =>
            parse_total(cntResp') =
                MatchCount(index, req.query, {TypeAsked(req)})]_vars
    /\ [][EsAnswered =>
            total' = MatchCount(index, req'.query, EsTypes(req'))]_vars
    /\ [][(pc = "m_join" /\ pc' = "done" /\ outcome' = "ok"
             /\ cntResp.kind = "ok") =>
            cntResp.hits # <<>> /\ total' = cntResp.hits[1].cnt]_vars
    /\ [][pc = "es_loop" => total' = total]_vars

\* An index of four documents, two of which match; the ISRC filter leaves
\* one item and total is two.
C7_Witness ==
    /\ Returned("search")
    /\ outcome = "ok"
    /\ req.isrc_filter # None
    /\ Len(index) = 4
    /\ total = 2
    /\ Len(items) = 1

\* C8 (as stated, for both variants): with the item type absent, every item
\* is a song and total counts the matching song documents only.
C8_AbsentTypeIsSongOnly ==
    /\ [](Returned("search") /\ outcome = "ok" /\ req.item_type = None =>
             \A k \in DOMAIN items : items[k].kind = "song")
    /\ [][CountAnswered /\ req.item_type = None =>
            parse_total(cntResp') = MatchCount(index, req.query, {"song"})]_vars
    /\ [][EsAnswered /\ req'.item_type = None =>
            total' = MatchCount(index, req'.query, {"song"})]_vars

\* The step at which the index answers the point-get of get_*_by_id.
GetAnswered == pc = "idle" /\ req'.op = "get" /\ idsResp'.kind # "err"

DocOfTypeInIndex(r) ==
    \E k \in DOMAIN index :
        index[k].doc_id = r.id /\ index[k].item_type = r.item_type

\* C9: when the index holds no document of the requested type under the id
\* (none at all, or one of another type), get_*_by_id returns Ok(None) at
\* once, without a relational query.
C9_GetAbsentOrOtherType ==
    [][GetAnswered /\ ~DocOfTypeInIndex(req') =>
          pc' = "done" /\ outcome' = "ok" /\ entity' = NoEntity /\ seen' = <<>>
      ]_vars

\* The id of an artist document, asked for as a song or an album, while the
\* artist's row is in the relational store.
C9_Witness ==
    /\ Returned("get")
    /\ outcome = "ok"
    /\ entity = NoEntity
    /\ hits # <<>>
    /\ hits[1].item_type = "artist"
    /\ req.item_type # "artist"
    /\ req.id \in DOMAIN db["artist"]

\* What the batch hydrator of the search path makes of the row read for an id.
BatchResult(t, s, id) ==
    LET rows == IF s.found = "row" THEN [i \in {id} |-> s.row]
                ELSE [i \in {} |-> s]
        map == CASE t = "song" -> fetch_songs_batch(rows, <<id>>)
                 [] t = "artist" -> fetch_artists_batch(rows, <<id>>)
                 [] t = "album" -> fetch_albums_batch(rows, <<id>>)
    IN  IF id \in DOMAIN map THEN map[id] ELSE NoEntity

\* C10: when the index holds a document of the requested type under the id,
\* get_*_by_id runs the relational query and returns what the search path's
\* hydration and guard make of the row that query reads (manticore.rs).
C10_GetEqualsSearchHydration ==
    /\ [][(GetAnswered /\ backend = "manticore" /\ idsResp'.kind = "ok"
             /\ DocOfTypeInIndex(req')) => pc' = "get_fetch"]_vars
    /\ [](backend = "manticore" /\ Returned("get") /\ outcome = "ok"
             /\ seen # <<>> =>
                 entity = BatchResult(req.item_type, seen[1], req.id))

\* The row is deleted between the point-get and the relational query.
C10_Witness ==
    /\ backend = "manticore"
    /\ Returned("get")
    /\ outcome = "ok"
    /\ hits # <<>>
    /\ hits[1].item_type = req.item_type
    /\ seen = <<[found |-> "norow"]>>
    /\ entity = NoEntity

\* The six characters of the query syntax.
Special == {"'", "\"", "\\", "@", "!", "^"}

\* out is in with every special character replaced by one space.
Sanitized(in, out) ==
    /\ Len(out) = Len(in)
    /\ \A k \in DOMAIN in : out[k] = IF in[k] \in Special THEN " " ELSE in[k]

\* C11: whatever the query text and the filter texts hold, the query builder
\* goes on (it has no step that rejects), and in the match expression every
\* special character of a text is one space and every other character is
\* where it was.
C11_CleanReplacesNeverRejects ==
    /\ (raw.kind = "texts" /\ built = NoText) => ENABLED BuildMatchExpr
    /\ (raw.kind = "texts" /\ built # NoText) =>
          /\ built.kind = "match_expr"
          /\ Sanitized(raw.query, built.text)
          /\ Len(built.artist_name) = Len(raw.artist_filter)
          /\ \A k \in DOMAIN raw.artist_filter :
                Sanitized(raw.artist_filter[k], built.artist_name[k])
          /\ Len(built.album_name) = Len(raw.album_filter)
          /\ \A k \in DOMAIN raw.album_filter :
                Sanitized(raw.album_filter[k], built.album_name[k])

\* A query with a letter, a caret and a quote, an artist filter that is "@"
\* and an album filter that is "^".
C11_Witness ==
    /\ raw.kind = "texts"
    /\ built # NoText
    /\ raw.query = <<"a", "^", "'">>
    /\ built.text = <<"a", " ", " ">>
    /\ raw.artist_filter = << <<"@">> >>
    /\ built.album_name = << <<" ">> >>

\* The request of the call in flight with the filter texts taken away, and
\* the page the index answers to it.
WithoutTexts(r) == [r EXCEPT !.artist_filter = None, !.album_filter = None]

PageOf(r) ==
    IF backend = "manticore" THEN ManticoreSelect(index, sql(r))
    ELSE EsHits(index, search_body(r))

\* A search returned with every query answered.
Answered ==
    /\ Returned("search")
    /\ outcome = "ok"
    /\ idsResp.kind = "ok"
    /\ backend = "manticore" => cntResp.kind = "ok"
    /\ \A j \in DOMAIN seen : seen[j] # QueryFailed

Kept(id) == \E k \in DOMAIN items : items[k].id = id

\* C12 (as stated, for both variants): with an artist filter text as the only
\* filter, a hit of the request's page is kept iff the artist string of its
\* entity (the name, for an artist) contains the text, letter case aside.
C12_ArtistFilterIsSubstring ==
    (/\ Answered
     /\ req.artist_filter # None
     /\ req.album_filter = None
     /\ req.isrc_filter = None
     /\ req.upc_filter = None) =>
        LET page == PageOf(WithoutTexts(req))
        IN  \A j \in DOMAIN page :
                page[j].item_type \in ItemTypes =>
                    LET row == db[page[j].item_type][page[j].id]
                        artist == IF page[j].item_type = "artist"
                                  THEN row.name ELSE row.artist_names
                    IN  Kept(page[j].id) <=>
                            contains_ignore_case(artist, req.artist_filter)

\* The total the index answers to a request.
TotalOf(r) ==
    IF backend = "manticore"
    THEN parse_total([kind |-> "ok",
                      hits |-> ManticoreCount(index, total_sql(r))])
    ELSE EsTotal(index, search_body(r))

\* C13 (as stated, for both variants): on an artist or album search an album
\* filter text changes nothing: the page, the total and the items are those
\* of the same request without it.
C13_AlbumFilterSongsOnly ==
    (/\ Answered
     /\ req.item_type \in {"artist", "album"}
     /\ req.album_filter # None) =>
        LET same == [req EXCEPT !.album_filter = None]
        IN  /\ hits = PageOf(same)
            /\ total = TotalOf(same)
            /\ (req.artist_filter = None /\ req.upc_filter = None) =>
                  \A j \in DOMAIN PageOf(same) : Kept(PageOf(same)[j].id)

\* A search for songs: the type is song, or absent in the manticore variant.
SongSearch ==
    req.item_type = "song" \/ (backend = "manticore" /\ req.item_type = None)

SameIsrc(a, b) == to_lowercase(a) = to_lowercase(b)

\* C14: with an ISRC filter on a song search every item is a song whose ISRC
\* equals the filter, letter case aside, and a song of the requested page
\* [O, O+L) whose row hydrates and whose ISRC equals the filter is returned,
\* wherever it stands within the page.
C14_IsrcFilterWithinPage ==
    (Answered /\ SongSearch /\ req.isrc_filter # None) =>
        /\ \A k \in DOMAIN items :
              /\ items[k].kind = "song"
              /\ SameIsrc(items[k].isrc, req.isrc_filter)
        /\ (req.artist_filter = None /\ req.album_filter = None) =>
              \A j \in DOMAIN hits :
                  (/\ hits[j].item_type = "song"
                   /\ seen[j].found = "row"
                   /\ ~BadSongRow(seen[j])
                   /\ SameIsrc(seen[j].row.isrc, req.isrc_filter)) =>
                      Kept(hits[j].id)

\* s1 then s2 on one page, the filter is s2's ISRC in upper case: the items
\* are exactly [s2].
C14_Witness ==
    /\ Answered
    /\ SongSearch
    /\ req.isrc_filter = "US2"
    /\ IdsOf(hits) = <<1, 2>>
    /\ Len(items) = 1
    /\ items[1].id = 2
    /\ items[1].isrc = "us2"

\* C14 (as stated): a song that matches the query and whose ISRC equals the
\* filter is returned wherever it ranks among the query's matches.
C14_IsrcRegardlessOfRank ==
    (/\ Answered
     /\ SongSearch
     /\ req.isrc_filter # None
     /\ req.artist_filter = None
     /\ req.album_filter = None) =>
        LET ranked == Ranked(index, req.query, "song")
        IN  \A j \in DOMAIN ranked :
                (/\ ranked[j].doc_id \in DOMAIN db["song"]
                 /\ SameIsrc(db["song"][ranked[j].doc_id].isrc,
                             req.isrc_filter)) =>
                    Kept(ranked[j].doc_id)

\* C15: with a UPC filter every returned album has a UPC equal to the filter,
\* letter case aside (a UPC that only contains the filter does not pass); on
\* a song or artist search the filter changes nothing: the page and the total
\* are those of the request without it, and with no other filter every hit
\* of the page is returned.
C15_UpcFilterExactAlbumsOnly ==
    (Answered /\ req.upc_filter # None) =>
        /\ \A k \in DOMAIN items :
              items[k].kind = "album" =>
                  to_lowercase(items[k].upc) = to_lowercase(req.upc_filter)
        /\ (SongSearch \/ req.item_type = "artist") =>
              LET same == [req EXCEPT !.upc_filter = None]
              IN  /\ hits = PageOf(same)
                  /\ total = TotalOf(same)
                  /\ (/\ req.artist_filter = None
                      /\ req.album_filter = None
                      /\ req.isrc_filter = None) =>
                         [k \in DOMAIN items |-> items[k].id] = IdsOf(hits)

\* An album search whose page holds albums 5 and 6; the filter is the UPC of
\* album 6, which alone is returned.
C15_Witness ==
    /\ Answered
    /\ req.item_type = "album"
    /\ req.upc_filter = "0002"
    /\ IdsOf(hits) = <<5, 6>>
    /\ Len(items) = 1
    /\ items[1].id = 6

\* A song search with a UPC filter that returns its whole page.
C15_WitnessSongs ==
    /\ Answered
    /\ req.item_type = "song"
    /\ req.upc_filter = "000"
    /\ Len(hits) = 2
    /\ Len(items) = 2

\* C16 (as stated): a call to which the index answered nothing, or a JSON
\* body without the hits/count structure, returns an index error.
C16_MalformedResponseIsError ==
    (/\ pc = "done"
     /\ req.op \in {"search", "get"}
     /\ \/ idsResp.kind \in {"err", "malformed"}
        \/ cntResp.kind \in {"err", "malformed"}) =>
        outcome = "index_error"

\* C17 (as stated, for both variants): a search one of whose relational
\* queries failed returns the error, with no items.
C17_FailedHydrationIsError ==
    (Returned("search") /\ \E j \in DOMAIN seen : seen[j] = QueryFailed) =>
        outcome = "db_error" /\ items = <<>>

UnknownType(t) == t \notin ItemTypes

\* C18: a hit whose item type is none of song, artist, album is passed over
\* without a relational query and without an item; the call goes on over
\* every other hit of the page and succeeds, and with no filter the other
\* hits whose query is answered are returned. A manticore search for a type
\* that is none of the three succeeds with no items.
C18_UnknownTypeSkipped ==
    /\ (backend = "es" /\ Returned("search") /\ idsResp.kind = "ok") =>
          /\ outcome = "ok"
          /\ Len(seen) = Len(hits)
          /\ \A j \in DOMAIN hits :
                IF UnknownType(hits[j].item_type)
                THEN seen[j].found = "noquery" /\ ~Kept(hits[j].id)
                ELSE /\ seen[j].found \in {"row", "error"}
                     /\ (/\ seen[j].found = "row"
                         /\ req.artist_filter = None
                         /\ req.album_filter = None
                         /\ req.isrc_filter = None
                         /\ req.upc_filter = None) => Kept(hits[j].id)
    /\ (/\ backend = "manticore"
        /\ Returned("search")
        /\ req.item_type # None
        /\ UnknownType(req.item_type)
        /\ idsResp.kind # "err"
        /\ cntResp.kind # "err") =>
          outcome = "ok" /\ items = <<>>

\* A page of a document of unknown type followed by a song: the song is
\* returned.
C18_Witness ==
    /\ backend = "es"
    /\ Returned("search")
    /\ outcome = "ok"
    /\ Len(hits) = 2
    /\ UnknownType(hits[1].item_type)
    /\ seen[1].found = "noquery"
    /\ seen[2].found = "row"
    /\ Len(items) = 1
    /\ items[1].id = hits[2].id

\* A step of search_advanced or get_*_by_id: the call in flight moves.
CallStep == callVars' # callVars

\* C19: no step of search_advanced or of get_*_by_id, of a call that succeeds
\* or of one that fails, changes the index or the relational store.
C19_CallsAreReadOnly ==
    [][CallStep => (index' = index /\ db' = db)]_vars

\* A get that found the document in the index and no entity in the
\* relational store has returned, and the document is still in the index.
C19_Witness ==
    /\ Returned("get")
    /\ outcome = "ok"
    /\ entity = NoEntity
    /\ seen # <<>>
    /\ \E k \in DOMAIN index :
          index[k].doc_id = req.id /\ index[k].item_type = req.item_type

\* A search has failed on the relational store, and both stores hold what
\* they held.
C19_WitnessFailed ==
    /\ Returned("search")
    /\ outcome = "db_error"
    /\ index # <<>>

\* The identifier format: sixteen characters, each a digit or a lower-case
\* letter of the characters of the model.
WellFormedOmid(id) ==
    Len(id) = 16 /\ \A k \in DOMAIN id : id[k] \in {"0", "9", "a", "z"}

\* C20: a get handler hands the id to get_*_by_id only if it is sixteen
\* characters of [0-9a-z], and then unchanged; for any other id it answers
\* 400 without a query to the index or to the relational store.
C20_OnlyWellFormedIdsReachEngine ==
    (raw.kind = "path" /\ built # NoText) =>
        IF WellFormedOmid(raw.id)
        THEN built = [kind |-> "get_by_id", item_type |-> raw.item_type,
                      id |-> raw.id]
        ELSE /\ built.kind = "response"
             /\ built.status = 400
             /\ built.index_queries = 0
             /\ built.db_queries = 0

\* An id of sixteen characters, one of them an upper-case letter, is
\* answered with 400.
C20_Witness ==
    /\ raw.kind = "path"
    /\ Len(raw.id) = 16
    /\ \E k \in DOMAIN raw.id : raw.id[k] = "A"
    /\ built.kind = "response"
    /\ built.status = 400

\* An id of the format has reached get_*_by_id.
C20_WitnessAccepted ==
    /\ raw.kind = "path"
    /\ built.kind = "get_by_id"
    /\ Len(built.id) = 16
    /\ \E k \in DOMAIN raw.id : raw.id[k] = "z"

\* What the manticore client makes of a request on the stores as they are,
\* every query answered.
ManticoreItems(r) ==
    LET t == sql(r).item_type
        ids == IdsOf(ManticoreSelect(index, sql(r)))
    IN  IF t \in ItemTypes THEN MItems(t, ids, MBatch(t, ids), r) ELSE <<>>

\* C21 (as stated): on the same index documents, the same relational content
\* and the same arguments, the Elasticsearch client returns the items the
\* Manticore client returns, in the same order.
C21_BackendsInterchangeable ==
    (backend = "es" /\ Answered) => items = ManticoreItems(req)

\* The step of a manticore search that goes on from the two statements to
\* hydration.
JoinDone == pc = "m_join" /\ pc' = "done" /\ outcome' # "index_error"

\* C22: a manticore search has its ranked-ids statement and its COUNT
\* statement in flight together, either may be answered first, and it goes on
\* only when both are answered; when either fails the call fails with no
\* relational query, no items and no total.
C22_BothStatementsJoined ==
    /\ []((pc = "m_join" /\ idsResp = Pending /\ cntResp = Pending) =>
             ENABLED MIdsQuery /\ ENABLED MCountQuery)
    /\ []((pc = "m_join" /\ (idsResp = Pending \/ cntResp = Pending)) =>
             queries = 0 /\ items = <<>> /\ total = 0)
    /\ [][JoinDone => idsResp # Pending /\ cntResp # Pending]_vars
    /\ []((/\ backend = "manticore"
           /\ Returned("search")
           /\ (idsResp.kind = "err" \/ cntResp.kind = "err")) =>
             /\ outcome = "index_error"
             /\ queries = 0
             /\ seen = <<>>
             /\ items = <<>>
             /\ total = 0)

\* The COUNT statement failed after the ranked ids were answered with a hit:
\* the call has failed without a relational query.
C22_Witness ==
    /\ backend = "manticore"
    /\ Returned("search")
    /\ idsResp.kind = "ok"
    /\ idsResp.hits # <<>>
    /\ cntResp.kind = "err"
    /\ outcome = "index_error"
    /\ queries = 0

\* C23 (as stated, for both variants): a search issues one relational query
\* for its page, none when the page is empty, whatever the size of the page.
C23_OneBatchedQueryPerCall ==
    (Returned("search") /\ outcome # "index_error") =>
        queries = IF hits = <<>> THEN 0 ELSE 1

\* C24: the batch hydrators answer an empty id list with an empty mapping
\* and without a query; a search whose page is empty returns no items with
\* the total the index answered, and no relational query is issued.
C24_EmptyPageNoRelationalQuery ==
    /\ \A t \in ItemTypes : MBatch(t, <<>>) = EmptyMap
    /\ batch_queries(<<>>) = 0
    /\ (Returned("search") /\ outcome = "ok" /\ hits = <<>>) =>
          /\ items = <<>>
          /\ queries = 0
          /\ seen = <<>>
          /\ backend = "manticore" => total = parse_total(cntResp)

\* The offset is past the one match of the query: the page is empty and the
\* total is one.
C24_Witness ==
    /\ backend = "manticore"
    /\ Returned("search")
    /\ outcome = "ok"
    /\ idsResp.kind = "ok"
    /\ hits = <<>>
    /\ cntResp.kind = "ok"
    /\ total = 1
    /\ queries = 0

\* The characters that end or escape a quoted literal of the index SQL.
Quoting == {"'", "\"", "\\"}

QuoteFree(cs) == \A k \in DOMAIN cs : cs[k] \notin Quoting

\* C25 (as stated): no text the statements are built from holds a quote, a
\* double quote or a backslash: the query text, the two filter texts, and the
\* item type placed in item_type='..'.
C25_NoQuoteInInterpolatedText ==
    (raw.kind = "texts" /\ built # NoText) =>
        /\ QuoteFree(built.text)
        /\ \A k \in DOMAIN built.artist_name : QuoteFree(built.artist_name[k])
        /\ \A k \in DOMAIN built.album_name : QuoteFree(built.album_name[k])
        /\ QuoteFree(built.item_type)

\* The limit and offset a request asks for, when both are integers.
AskedLimit == IF raw.limit.given = "absent" THEN 20 ELSE raw.limit.value
AskedOffset == IF raw.offset.given = "absent" THEN 0 ELSE raw.offset.value
Acceptable ==
    /\ raw.limit.given # "text"
    /\ raw.offset.given # "text"
    /\ 1 <= AskedLimit
    /\ AskedLimit <= 100
    /\ AskedOffset >= 0

\* C26: search_handler calls search_advanced only with 1 <= limit <= 100 and
\* offset >= 0, and with the limit and offset of the request; any other
\* request is answered 400 with no query to the index or the relational
\* store; a successful response carries the request's limit and offset and
\* the items and total search_advanced returned.
C26_HandlerValidatesAndEchoes ==
    (raw.kind = "query" /\ built # NoText) =>
        IF ~Acceptable
        THEN built = BadRequest
        ELSE /\ built.kind = "search_advanced" =>
                   built.limit = AskedLimit /\ built.offset = AskedOffset
             /\ built.kind = "response" =>
                   /\ built.status \in {200, 500}
                   /\ built.status = 200 <=> built.result.kind = "Ok"
                   /\ built.status = 200 =>
                         /\ built.limit = AskedLimit
                         /\ built.offset = AskedOffset
                         /\ built.data = built.result.items
                         /\ built.total = built.result.total

\* A request with limit 0 is answered 400.
C26_Witness ==
    /\ raw.kind = "query"
    /\ raw.limit = I32(0)
    /\ raw.offset = I32(0)
    /\ built = BadRequest

\* A request with limit 100 and offset 1 is answered with the engine's two
\* items and total.
C26_WitnessEcho ==
    /\ raw.kind = "query"
    /\ raw.limit = I32(100)
    /\ raw.offset = I32(1)
    /\ built.kind = "response"
    /\ built.status = 200
    /\ built.limit = 100
    /\ built.offset = 1
    /\ built.data = <<1, 2>>
    /\ built.total = 2

\* C27 (as stated): the items of a search result hold each entity id at most
\* once, whatever the syncs have left in the index.
C27_ItemsHaveDistinctIds ==
    (Returned("search") /\ outcome = "ok") =>
        \A k1, k2 \in DOMAIN items :
            items[k1].id = items[k2].id => k1 = k2

\* The value of a column, or the default the claim names for it.
OrDefault(col, d) == IF col = <<>> THEN d ELSE col[1]

\* C28 (as stated, for both variants and both hydrators): a row whose
\* optional columns are NULL hydrates, with 1, 1, 0, "", "" for a song's
\* disc_number, track_number, duration, isrc, date and "", 0, "" for an
\* album's date, track_count, upc.
C28_NullColumnsGetDefaults ==
    /\ (raw.kind = "song_row" /\ built # NoText) =>
          /\ built.status = "ok"
          /\ built.value =
                [disc_number |-> OrDefault(raw.columns.disc_number, 1),
                 track_number |-> OrDefault(raw.columns.track_number, 1),
                 duration |-> OrDefault(raw.columns.duration, 0),
                 isrc |-> OrDefault(raw.columns.isrc, ""),
                 date |-> OrDefault(raw.columns.date, "")]
    /\ (raw.kind = "album_row" /\ built # NoText) =>
          /\ built.status = "ok"
          /\ built.value =
                [date |-> OrDefault(raw.columns.date, ""),
                 track_count |-> OrDefault(raw.columns.track_count, 0),
                 upc |-> OrDefault(raw.columns.upc, "")]

BucketIntervals ==
    {10, 30, 60, 300, 600, 900, 1800, 3600, 7200, 10800, 21600, 43200, 86400,
     604800}

Span(r) == r.to - r.from

\* C30: calculate_bucket_interval answers one of the fourteen fixed
\* intervals, a range that is not shorter than another never gets a smaller
\* interval, and a range whose end is not after its start gets 10.
C30_BucketIntervalFixedAndMonotone ==
    (raw.kind = "ranges" /\ built # NoText) =>
        /\ built.first \in BucketIntervals
        /\ built.second \in BucketIntervals
        /\ Span(raw.first) <= Span(raw.second) => built.first <= built.second
        /\ raw.first.to <= raw.first.from => built.first = 10
        /\ raw.second.to <= raw.second.from => built.second = 10

\* A reversed range got 10 and the longest range drawn got 604800.
C30_Witness ==
    /\ raw.kind = "ranges"
    /\ built # NoText
    /\ raw.first.to < raw.first.from
    /\ built.first = 10
    /\ built.second = 604800

\* The two sides of the boundary between 600 and 900.
C30_WitnessBoundary ==
    /\ raw.kind = "ranges"
    /\ built # NoText
    /\ Span(raw.first) = (750 * target_points) - 1
    /\ Span(raw.second) = 750 * target_points
    /\ built.first = 600
    /\ built.second = 900

====
